---- MODULE Spec2Model ----
(***************************************************************************)
(* Model of bot.py: the category-selection state kept in user_state, the   *)
(* entries table, and the four handlers start, choose_category,            *)
(* handle_message and view_entries.                                        *)
(*                                                                         *)
(* A handler is a coroutine.  handle_message is modelled one await at a    *)
(* time (add_entry, reply_text, send_message); the other handlers touch    *)
(* the shared state at one point only and are one action each, with the    *)
(* await that raised, if any, drawn nondeterministically.  The application *)
(* is built with the default settings, so updates are dispatched one at a  *)
(* time: a handler starts only when no other handler is in flight.         *)
(*                                                                         *)
(* An exception that leaves a handler is logged by the dispatcher and the  *)
(* handler ends there; `fault` names the call that raised.  `out` holds    *)
(* the gateway calls made by the current (or most recent) handler          *)
(* invocation; a call that raised is in `out` and named by `fault`.        *)
(***************************************************************************)
EXTENDS Integers, Sequences, FiniteSets, TLC

\* ---------------------------------------------------------------- bounds
MaxEntries == 2
MaxReport == 6
MaxRace == 1

\* ------------------------------------------------------- program constants
ADMIN_ID == 1
TailLen == 5

\* ------------------------------------------------------------------ inputs
Users == {1, 2}
None == "none"
Tokens == {"fruits", "drinks", "bogus"}
\* a text with and one without surrounding blanks
RawTexts == {<<" ", "a">>, <<"a">>}

first_name(u) == IF u = ADMIN_ID THEN "Ann" ELSE "Bob"

\* callback_data of the buttons of the category menu, top to bottom
keyboard == <<"fruits", "vegetables", "drinks", "others">>

\* keys of the cats dict of the report, in insertion order
cats_keys == <<"fruits", "vegetables", "drinks", "others">>

Range(s) == {s[i] : i \in DOMAIN s}

\* ------------------------------------------------------------ conversions
\* str.capitalize() on the tokens that occur
capitalize(s) ==
    CASE s = "fruits" -> "Fruits"
      [] s = "vegetables" -> "Vegetables"
      [] s = "drinks" -> "Drinks"
      [] s = "others" -> "Others"
      [] s = "bogus" -> "Bogus"
      [] OTHER -> s

RECURSIVE rstrip(_)
rstrip(s) ==
    IF s # <<>> /\ s[Len(s)] = " " THEN rstrip(SubSeq(s, 1, Len(s) - 1)) ELSE s

\* faulty variant of strip: trailing blanks only (str.rstrip)
strip_trailing_only(s) == rstrip(s)

RECURSIVE lstrip(_)
lstrip(s) == IF s # <<>> /\ Head(s) = " " THEN lstrip(Tail(s)) ELSE s

\* str.strip(): a text is a sequence of characters
strip(s) == rstrip(lstrip(s))

\* ---------------------------------------------------------------- messages
MenuMsg == [kind |-> "menu", options |-> keyboard]
ChoseMsg(category) == [kind |-> "chose", label |-> capitalize(category)]
ChooseFirstMsg == [kind |-> "choose_first"]
AddedMsg(category) == [kind |-> "added", label |-> capitalize(category)]
NotifyMsg(category, text, name) ==
    [kind |-> "new_entry", label |-> capitalize(category), text |-> text,
     from |-> name]
DeniedMsg == [kind |-> "denied"]
NoEntriesMsg == [kind |-> "no_entries"]
ReportMsg(sections) == [kind |-> "report", sections |-> sections]

Sent(to, msg) == [to |-> to, msg |-> msg]

\* ------------------------------------------------------------------- state
VARIABLES
    user_state,   \* user id -> selected category token, None when absent
    entries,      \* rows of the entries table, in rowid order
    pc,           \* user id -> position of that user's handle_message
    loc,          \* user id -> locals of that user's handle_message
    adminSends,   \* every send_message(ADMIN_ID, ...) call made so far
    cur,          \* the handler invocation dispatched last
    out,          \* gateway calls made by that invocation
    fault,        \* the call of that invocation that raised, or "none"
    scanned,      \* whether that invocation ran get_entries
    snap          \* table and notification counts when it was dispatched

vars == <<user_state, entries, pc, loc, adminSends, cur, out, fault, scanned, snap>>

NoLoc == [raw |-> <<>>, text |-> <<>>, category |-> None, name |-> None]

Snapshot == [entries |-> Len(entries), sends |-> Len(adminSends)]

\* rows left in entries.db by earlier runs of the process
StoreInit == <<>>

Init ==
    /\ user_state = [u \in Users |-> None]
    /\ entries = StoreInit
    /\ pc = [u \in Users |-> "idle"]
    /\ loc = [u \in Users |-> NoLoc]
    /\ adminSends = <<>>
    /\ cur = [handler |-> "none", user |-> 0]
    /\ out = <<>>
    /\ fault = "none"
    /\ scanned = FALSE
    /\ snap = [entries |-> 0, sends |-> 0]

\* updates are processed one at a time
Dispatchable == \A u \in Users : pc[u] = "idle"

Dispatch(handler, u) ==
    /\ Dispatchable
    /\ cur' = [handler |-> handler, user |-> u]
    /\ snap' = Snapshot

\* --------------------------------------------------------------- the store
\* faulty variant of Row: the id is not assigned by the table
Row_same_id(user_id, username, category, text) ==
    [id |-> 1, user_id |-> user_id, username |-> username,
     category |-> category, text |-> text]

Row(user_id, username, category, text) ==
    [id |-> Len(entries) + 1, user_id |-> user_id, username |-> username,
     category |-> category, text |-> text]

\* faulty variant of add_entry: the insert is never committed
add_entry_uncommitted(user_id, username, category, text) ==
    UNCHANGED entries

add_entry(user_id, username, category, text) ==
    entries' = Append(entries, Row(user_id, username, category, text))

\* ---------------------------------------------------------------- handlers
\* faulty variant of start: /start forgets the user's selection
start_resetting(u) ==
    /\ Dispatch("start", u)
    /\ out' = <<Sent(u, MenuMsg)>>
    /\ \E ok \in BOOLEAN : fault' = IF ok THEN "none" ELSE "reply"
    /\ scanned' = FALSE
    /\ loc' = [v \in Users |-> NoLoc]
    /\ user_state' = [user_state EXCEPT ![u] = None]
    /\ UNCHANGED <<entries, pc, adminSends>>

start(u) ==
    /\ Dispatch("start", u)
    /\ out' = <<Sent(u, MenuMsg)>>
    /\ \E ok \in BOOLEAN : fault' = IF ok THEN "none" ELSE "reply"
    /\ scanned' = FALSE
    /\ loc' = [v \in Users |-> NoLoc]
    /\ UNCHANGED <<user_state, entries, pc, adminSends>>

\* faulty variant of choose_category: one selection shared by all users
choose_category_shared(u, token) ==
    /\ Dispatch("choose_category", u)
    /\ scanned' = FALSE
    /\ loc' = [v \in Users |-> NoLoc]
    /\ UNCHANGED <<entries, pc, adminSends>>
    /\ \/ /\ fault' = "answer"
          /\ out' = <<>>
          /\ UNCHANGED user_state
       \/ /\ user_state' = [v \in Users |-> token]
          /\ out' = <<Sent(u, ChoseMsg(token))>>
          /\ \E ok \in BOOLEAN : fault' = IF ok THEN "none" ELSE "reply"

\* faulty variant of choose_category: a pending selection is not overwritten
choose_category_keep_first(u, token) ==
    /\ Dispatch("choose_category", u)
    /\ scanned' = FALSE
    /\ loc' = [v \in Users |-> NoLoc]
    /\ UNCHANGED <<entries, pc, adminSends>>
    /\ \/ /\ fault' = "answer"
          /\ out' = <<>>
          /\ UNCHANGED user_state
       \/ /\ user_state' = [user_state EXCEPT
                               ![u] = IF @ = None THEN token ELSE @]
          /\ out' = <<Sent(u, ChoseMsg(token))>>
          /\ \E ok \in BOOLEAN : fault' = IF ok THEN "none" ELSE "reply"

choose_category(u, token) ==
    /\ Dispatch("choose_category", u)
    /\ scanned' = FALSE
    /\ loc' = [v \in Users |-> NoLoc]
    /\ UNCHANGED <<entries, pc, adminSends>>
    /\ \/ /\ fault' = "answer"
          /\ out' = <<>>
          /\ UNCHANGED user_state
       \/ /\ user_state' = [user_state EXCEPT ![u] = token]
          /\ out' = <<Sent(u, ChoseMsg(token))>>
          /\ \E ok \in BOOLEAN : fault' = IF ok THEN "none" ELSE "reply"

\* faulty variant of hm_begin: the lookup in user_state is not guarded
hm_begin_unguarded(u, raw) ==
    /\ Dispatch("handle_message", u)
    /\ scanned' = FALSE
    /\ UNCHANGED <<user_state, entries, adminSends>>
    /\ Len(entries) < MaxEntries
    /\ loc' = [v \in Users |->
                  IF v = u
                  THEN [raw |-> raw, text |-> strip(raw),
                        category |-> user_state[u], name |-> first_name(u)]
                  ELSE NoLoc]
    /\ out' = <<>>
    /\ fault' = "none"
    /\ pc' = [pc EXCEPT ![u] = "add_entry"]

\* handle_message up to its first await: the text is trimmed, the selection
\* is looked up, and either the prompt is sent or add_entry is awaited
hm_begin(u, raw) ==
    /\ Dispatch("handle_message", u)
    /\ scanned' = FALSE
    /\ UNCHANGED <<user_state, entries, adminSends>>
    /\ IF user_state[u] = None
       THEN /\ loc' = [v \in Users |->
                          IF v = u
                          THEN [NoLoc EXCEPT !.raw = raw, !.text = strip(raw),
                                             !.name = first_name(u)]
                          ELSE NoLoc]
            /\ out' = <<Sent(u, ChooseFirstMsg)>>
            /\ \E ok \in BOOLEAN : fault' = IF ok THEN "none" ELSE "reply"
            /\ UNCHANGED pc
       ELSE /\ Len(entries) < MaxEntries
            /\ loc' = [v \in Users |->
                          IF v = u
                          THEN [raw |-> raw, text |-> strip(raw),
                                category |-> user_state[u],
                                name |-> first_name(u)]
                          ELSE NoLoc]
            /\ out' = <<>>
            /\ fault' = "none"
            /\ pc' = [pc EXCEPT ![u] = "add_entry"]

\* faulty variant of hm_add_entry: the selection is consumed by the insert
hm_add_entry_consuming(u) ==
    /\ pc[u] = "add_entry"
    /\ UNCHANGED <<loc, adminSends, cur, out, scanned, snap>>
    /\ \/ /\ add_entry(u, loc[u].name, loc[u].category, loc[u].text)
          /\ user_state' = [user_state EXCEPT ![u] = None]
          /\ pc' = [pc EXCEPT ![u] = "reply_text"]
          /\ UNCHANGED fault
       \/ /\ fault' = "add_entry"
          /\ pc' = [pc EXCEPT ![u] = "idle"]
          /\ UNCHANGED <<entries, user_state>>

\* await add_entry(...): the row is committed, or the store raises
hm_add_entry(u) ==
    /\ pc[u] = "add_entry"
    /\ UNCHANGED <<user_state, loc, adminSends, cur, out, scanned, snap>>
    /\ \/ /\ add_entry(u, loc[u].name, loc[u].category, loc[u].text)
          /\ pc' = [pc EXCEPT ![u] = "reply_text"]
          /\ UNCHANGED fault
       \/ /\ fault' = "add_entry"
          /\ pc' = [pc EXCEPT ![u] = "idle"]
          /\ UNCHANGED entries

\* faulty variant of hm_reply_text: the category is looked up again
hm_reply_text_rereading(u) ==
    /\ pc[u] = "reply_text"
    /\ out' = Append(out, Sent(u, AddedMsg(user_state[u])))
    /\ UNCHANGED <<user_state, entries, loc, adminSends, cur, scanned, snap>>
    /\ \/ /\ pc' = [pc EXCEPT ![u] = "send_message"]
          /\ UNCHANGED fault
       \/ /\ fault' = "reply"
          /\ pc' = [pc EXCEPT ![u] = "idle"]

\* await update.message.reply_text("Added to ...")
hm_reply_text(u) ==
    /\ pc[u] = "reply_text"
    /\ out' = Append(out, Sent(u, AddedMsg(loc[u].category)))
    /\ UNCHANGED <<user_state, entries, loc, adminSends, cur, scanned, snap>>
    /\ \/ /\ pc' = [pc EXCEPT ![u] = "send_message"]
          /\ UNCHANGED fault
       \/ /\ fault' = "reply"
          /\ pc' = [pc EXCEPT ![u] = "idle"]

\* faulty variant of hm_send_message: a failed notification deletes the row
hm_send_message_rollback(u) ==
    /\ pc[u] = "send_message"
    /\ adminSends' = Append(adminSends,
                            NotifyMsg(loc[u].category, loc[u].text, loc[u].name))
    /\ out' = Append(out, Sent(ADMIN_ID,
                            NotifyMsg(loc[u].category, loc[u].text, loc[u].name)))
    /\ pc' = [pc EXCEPT ![u] = "idle"]
    /\ \/ fault' = "none" /\ UNCHANGED entries
       \/ fault' = "send_message" /\ entries' = SubSeq(entries, 1, Len(entries) - 1)
    /\ UNCHANGED <<user_state, loc, cur, scanned, snap>>

\* await context.bot.send_message(ADMIN_ID, ...)
hm_send_message(u) ==
    /\ pc[u] = "send_message"
    /\ adminSends' = Append(adminSends,
                            NotifyMsg(loc[u].category, loc[u].text, loc[u].name))
    /\ out' = Append(out, Sent(ADMIN_ID,
                            NotifyMsg(loc[u].category, loc[u].text, loc[u].name)))
    /\ pc' = [pc EXCEPT ![u] = "idle"]
    /\ \E ok \in BOOLEAN : fault' = IF ok THEN "none" ELSE "send_message"
    /\ UNCHANGED <<user_state, entries, loc, cur, scanned, snap>>

\* ------------------------------------------------------------------ report
\* SELECT category, username, text FROM entries
get_entries ==
    [i \in 1..Len(entries) |->
        [category |-> entries[i].category, username |-> entries[i].username,
         text |-> entries[i].text]]

\* f"{username}: {text}"
Line(username, text) == <<username, ":", " ">> \o text

\* cats[cat] after the grouping loop
Values(rows, cat) ==
    LET OfCat(r) == r.category = cat
        sel == SelectSeq(rows, OfCat)
    IN  [i \in 1..Len(sel) |-> Line(sel[i].username, sel[i].text)]

\* faulty variant of Shown: the first five, values[:5]
Shown_head(values) ==
    IF Len(values) <= TailLen THEN values ELSE SubSeq(values, 1, TailLen)

\* values[-5:]
Shown(values) ==
    IF Len(values) <= TailLen THEN values
    ELSE SubSeq(values, Len(values) - TailLen + 1, Len(values))

Section(rows, cat) ==
    LET values == Values(rows, cat)
    IN  [label |-> capitalize(cat), count |-> Len(values),
         lines |-> IF values # <<>> THEN Shown(values) ELSE <<>>,
         empty_note |-> (values = <<>>)]

Render(rows) == [i \in 1..Len(cats_keys) |-> Section(rows, cats_keys[i])]

\* cats[category] raises KeyError for a category that is no key of cats
KeyErrorIn(rows) == \E i \in 1..Len(rows) : rows[i].category \notin Range(cats_keys)

\* faulty variant of view_entries: no check of the requester
view_entries_unguarded(r) ==
    /\ Dispatch("view_entries", r)
    /\ loc' = [v \in Users |-> NoLoc]
    /\ UNCHANGED <<user_state, entries, pc, adminSends>>
    /\ scanned' = TRUE
    /\ \/ /\ fault' = "get_entries"
          /\ out' = <<>>
       \/ LET rows == get_entries IN
          IF rows = <<>>
          THEN /\ out' = <<Sent(r, NoEntriesMsg)>>
               /\ \E ok \in BOOLEAN : fault' = IF ok THEN "none" ELSE "reply"
          ELSE IF KeyErrorIn(rows)
          THEN /\ out' = <<>>
               /\ fault' = "KeyError"
          ELSE /\ out' = <<Sent(r, ReportMsg(Render(rows)))>>
               /\ \E ok \in BOOLEAN : fault' = IF ok THEN "none" ELSE "reply"

\* faulty variant of view_entries: an empty table is rendered like any other
view_entries_no_shortcut(r) ==
    /\ Dispatch("view_entries", r)
    /\ loc' = [v \in Users |-> NoLoc]
    /\ UNCHANGED <<user_state, entries, pc, adminSends>>
    /\ IF r # ADMIN_ID
       THEN /\ out' = <<Sent(r, DeniedMsg)>>
            /\ scanned' = FALSE
            /\ \E ok \in BOOLEAN : fault' = IF ok THEN "none" ELSE "reply"
       ELSE /\ scanned' = TRUE
            /\ \/ /\ fault' = "get_entries"
                  /\ out' = <<>>
               \/ LET rows == get_entries IN
                  IF KeyErrorIn(rows)
                  THEN /\ out' = <<>>
                       /\ fault' = "KeyError"
                  ELSE /\ out' = <<Sent(r, ReportMsg(Render(rows)))>>
                       /\ \E ok \in BOOLEAN :
                             fault' = IF ok THEN "none" ELSE "reply"

view_entries(r) ==
    /\ Dispatch("view_entries", r)
    /\ loc' = [v \in Users |-> NoLoc]
    /\ UNCHANGED <<user_state, entries, pc, adminSends>>
    /\ IF r # ADMIN_ID
       THEN /\ out' = <<Sent(r, DeniedMsg)>>
            /\ scanned' = FALSE
            /\ \E ok \in BOOLEAN : fault' = IF ok THEN "none" ELSE "reply"
       ELSE /\ scanned' = TRUE
            /\ \/ /\ fault' = "get_entries"
                  /\ out' = <<>>
               \/ LET rows == get_entries IN
                  IF rows = <<>>
                  THEN /\ out' = <<Sent(r, NoEntriesMsg)>>
                       /\ \E ok \in BOOLEAN :
                             fault' = IF ok THEN "none" ELSE "reply"
                  ELSE IF KeyErrorIn(rows)
                  THEN /\ out' = <<>>
                       /\ fault' = "KeyError"
                  ELSE /\ out' = <<Sent(r, ReportMsg(Render(rows)))>>
                       /\ \E ok \in BOOLEAN :
                             fault' = IF ok THEN "none" ELSE "reply"

Next ==
    \/ \E u \in Users : start(u)
    \/ \E u \in Users, token \in Tokens : choose_category(u, token)
    \/ \E u \in Users, raw \in RawTexts : hm_begin(u, raw)
    \/ \E u \in Users : hm_add_entry(u)
    \/ \E u \in Users : hm_reply_text(u)
    \/ \E u \in Users : hm_send_message(u)
    \/ \E r \in Users : view_entries(r)

Spec == Init /\ [][Next]_vars

\* ------------------------------------------------------ process restart
\* faulty variant of Restart: the selections outlive the process
Restart_keeping_selection ==
    /\ pc' = [u \in Users |-> "idle"]
    /\ loc' = [u \in Users |-> NoLoc]
    /\ cur' = [handler |-> "none", user |-> 0]
    /\ out' = <<>>
    /\ fault' = "none"
    /\ scanned' = FALSE
    /\ snap' = Snapshot
    /\ UNCHANGED <<user_state, entries, adminSends>>

\* The process is stopped, at any point, and started again: the module is
\* loaded anew (user_state = {}), a handler in flight is gone, and init_db
\* finds the table as the committed inserts left it.
Restart ==
    /\ user_state' = [u \in Users |-> None]
    /\ pc' = [u \in Users |-> "idle"]
    /\ loc' = [u \in Users |-> NoLoc]
    /\ cur' = [handler |-> "none", user |-> 0]
    /\ out' = <<>>
    /\ fault' = "none"
    /\ scanned' = FALSE
    /\ snap' = Snapshot
    /\ UNCHANGED <<entries, adminSends>>

NextRestart ==
    \/ Next
    \/ Restart

SpecRestart == Init /\ [][NextRestart]_vars

\* ------------------------------------------------- overlapping handlers
\* choose_category of user u run while a handle_message of u is suspended at
\* one of its awaits, as a dispatcher that does not wait for a handler to
\* return lets it.  cur, snap and fault keep describing the suspended handle_message;
\* the answer to the choice is added to out.  (When query.answer() raises,
\* nothing changes.)
choose_category_during(u, token) ==
    /\ pc[u] # "idle"
    /\ Cardinality({i \in 1..Len(out) : out[i].msg.kind = "chose"}) < MaxRace
    /\ user_state' = [user_state EXCEPT ![u] = token]
    /\ out' = Append(out, Sent(u, ChoseMsg(token)))
    /\ UNCHANGED <<entries, pc, loc, adminSends, cur, fault, scanned, snap>>

NextConcurrent ==
    \/ Next
    \/ \E u \in Users, token \in Tokens : choose_category_during(u, token)

SpecConcurrent == Init /\ [][NextConcurrent]_vars

\* ------------------------------------------------- the report on its own
\* entries.db survives the process: init_db creates the table only if it is
\* missing, so a run may start on any table earlier runs have written
ReportRows ==
    { [user_id |-> 1, username |-> "Ann", category |-> "fruits", text |-> <<"a">>],
      [user_id |-> 2, username |-> "Bob", category |-> "fruits", text |-> <<"b">>],
      [user_id |-> 2, username |-> "Bob", category |-> "drinks", text |-> <<"a">>],
      [user_id |-> 2, username |-> "Bob", category |-> "bogus", text |-> <<"b">>] }

Stores ==
    UNION { { [i \in 1..n |->
                 [id |-> i, user_id |-> f[i].user_id, username |-> f[i].username,
                  category |-> f[i].category, text |-> f[i].text]]
              : f \in [1..n -> ReportRows] }
            : n \in 0..MaxReport }

InitReport ==
    /\ user_state = [u \in Users |-> None]
    /\ entries \in Stores
    /\ pc = [u \in Users |-> "idle"]
    /\ loc = [u \in Users |-> NoLoc]
    /\ adminSends = <<>>
    /\ cur = [handler |-> "none", user |-> 0]
    /\ out = <<>>
    /\ fault = "none"
    /\ scanned = FALSE
    /\ snap = [entries |-> 0, sends |-> 0]

NextReport == \E r \in Users : view_entries(r)

SpecReport == InitReport /\ [][NextReport]_vars

\* ================================================================ properties
Registry == {"fruits", "vegetables", "drinks", "others"}

\* the latest handler invocation is handle_message for u
TextFrom(u) == cur.handler = "handle_message" /\ cur.user = u

\* ... and it found a selection (the category it read)
Submitting(u) == TextFrom(u) /\ loc[u].category # None

\* ... and it ran to its end without an exception
Submitted(u) == Submitting(u) /\ pc[u] = "idle" /\ fault = "none"

ViewBy(r) == cur.handler = "view_entries" /\ cur.user = r

\* t is raw without its leading and trailing blanks
IsTrimOf(t, raw) ==
    /\ t = <<>> \/ (t[1] # " " /\ t[Len(t)] # " ")
    /\ Len(t) <= Len(raw)
    /\ \E i \in 0..(Len(raw) - Len(t)) :
          /\ \A k \in 1..i : raw[k] = " "
          /\ \A k \in 1..Len(t) : raw[i + k] = t[k]
          /\ \A k \in (i + Len(t) + 1)..Len(raw) : raw[k] = " "

\* C1: a category choice with a token outside the registry is rejected and
\* leaves the selection alone, so that a selection is always a registry
\* category.
C1_SelectionInRegistry ==
    \A u \in Users : user_state[u] # None => user_state[u] \in Registry

\* C2: a text from a user without a selection stores nothing, notifies nobody,
\* sends only the choose-a-category-first prompt and leaves the user without
\* a selection.
C2_NoSelectionNoInsert ==
    \A u \in Users :
        (TextFrom(u) /\ loc[u].category = None) =>
            /\ pc[u] = "idle"
            /\ Len(entries) = snap.entries
            /\ Len(adminSends) = snap.sends
            /\ out = <<Sent(u, ChooseFirstMsg)>>
            /\ user_state[u] = None

C2_Witness ==
    /\ TextFrom(2) /\ loc[2].category = None /\ fault = "none"
    /\ out # <<>> /\ Len(entries) > 0 /\ user_state[1] # None

\* C3 as stated: after a choice of c and one successful text t of user u the
\* table has exactly one new row, with u, c and the text t as it was received,
\* and exactly one notification to the admin carrying t was sent.
C3_StoresTextAsReceived ==
    \A u \in Users :
        Submitted(u) =>
            /\ Len(entries) = snap.entries + 1
            /\ entries[Len(entries)].user_id = u
            /\ entries[Len(entries)].category = user_state[u]
            /\ entries[Len(entries)].text = loc[u].raw
            /\ Len(adminSends) = snap.sends + 1
            /\ adminSends[Len(adminSends)].text = loc[u].raw

\* C3 amended: ... the new row and the notification carry t without its
\* leading and trailing whitespace.
C3_StoresTrimmedText ==
    \A u \in Users :
        Submitted(u) =>
            /\ Len(entries) = snap.entries + 1
            /\ entries[Len(entries)].user_id = u
            /\ entries[Len(entries)].category = user_state[u]
            /\ IsTrimOf(entries[Len(entries)].text, loc[u].raw)
            /\ Len(adminSends) = snap.sends + 1
            /\ adminSends[Len(adminSends)].text = entries[Len(entries)].text
            /\ adminSends[Len(adminSends)].label = capitalize(user_state[u])
            /\ \A i \in 1..Len(out) :
                  out[i].msg.kind = "new_entry" => i = Len(out) /\ out[i].to = ADMIN_ID

C3_Witness ==
    /\ Submitted(2) /\ loc[2].raw = <<" ", "a">> /\ user_state[2] = "drinks"
    /\ Len(entries) = 2

\* C4: when the insert fails, the submitter is sent a failure message, the
\* admin is not notified and the table has no new row.
C4_InsertFailureReported ==
    \A u \in Users :
        (TextFrom(u) /\ fault = "add_entry") =>
            /\ \E i \in 1..Len(out) : out[i].to = u
            /\ Len(adminSends) = snap.sends
            /\ Len(entries) = snap.entries

\* C5: once the handlers have run, every committed row has exactly one admin
\* notification, whichever call failed on the way.
C5_OneNotificationPerEntry ==
    Dispatchable =>
        /\ Len(adminSends) = Len(entries)
        /\ \A i \in 1..Len(entries) :
              i <= Len(adminSends) =>
                 adminSends[i] = NotifyMsg(entries[i].category, entries[i].text,
                                           entries[i].username)

\* C6: when the call that notifies the admin raises, the row just inserted is
\* still in the table, the confirmation to the submitter has been sent, and
\* nothing else (no failure report) has been sent to the submitter.
C6_NotifyFailureKeepsEntry ==
    \A u \in Users :
        (TextFrom(u) /\ fault = "send_message") =>
            /\ Len(entries) = snap.entries + 1
            /\ entries[Len(entries)].user_id = u
            /\ entries[Len(entries)].category = loc[u].category
            /\ entries[Len(entries)].text = loc[u].text
            /\ Len(out) = 2
            /\ out[1] = Sent(u, AddedMsg(loc[u].category))
            /\ out[2].to = ADMIN_ID /\ out[2].msg.kind = "new_entry"

C6_Witness ==
    /\ TextFrom(2) /\ fault = "send_message" /\ pc[2] = "idle"
    /\ Len(entries) = 2

\* C7: /view from anyone but the admin is answered with the denial only,
\* without reading the table; report content and entry notifications go to
\* the admin identity only.
C7_OnlyAdminSeesEntries ==
    /\ \A r \in Users :
          (ViewBy(r) /\ r # ADMIN_ID) =>
              /\ out = <<Sent(r, DeniedMsg)>>
              /\ ~scanned
    /\ \A i \in 1..Len(out) :
          out[i].msg.kind \in {"report", "no_entries", "new_entry"} =>
              out[i].to = ADMIN_ID

C7_Witness ==
    /\ ViewBy(2) /\ fault = "none" /\ out = <<Sent(2, DeniedMsg)>>
    /\ Len(entries) > 0

\* C8: a text submission leaves the selection in place: the user's selection
\* during and after the submission is the category the row was stored under,
\* so the next text is stored under the same category without a new choice.
C8_SelectionSticky ==
    \A u \in Users :
        Submitting(u) =>
            /\ user_state[u] = loc[u].category
            /\ Len(entries) > snap.entries =>
                  /\ Len(entries) = snap.entries + 1
                  /\ entries[Len(entries)].category = user_state[u]

C8_Witness ==
    /\ Submitted(2) /\ Len(entries) = 2
    /\ entries[1].user_id = 2 /\ entries[2].user_id = 2
    /\ entries[1].category = "fruits" /\ entries[2].category = "fruits"
    /\ user_state[2] = "fruits"

\* the registry in its canonical order, and the headings the report shows
RegistryOrder == <<"fruits", "vegetables", "drinks", "others">>
Headings == <<"Fruits", "Vegetables", "Drinks", "Others">>

\* positions in the table of the rows of category c
RowsOf(c) == {j \in 1..Len(entries) : entries[j].category = c}

\* a report with one section per registry category, in canonical order,
\* where exactly the categories without rows are marked "no entries yet"
ListsEveryCategory(sections) ==
    /\ Len(sections) = Len(RegistryOrder)
    /\ \A k \in 1..Len(RegistryOrder) :
          /\ sections[k].label = Headings[k]
          /\ sections[k].empty_note <=> RowsOf(RegistryOrder[k]) = {}
          /\ sections[k].empty_note => sections[k].lines = <<>>

\* the admin asked for the report and the table could be read and grouped
Reported == ViewBy(ADMIN_ID) /\ fault \in {"none", "reply"}

C10_LastFiveWithTotal ==
    \A i \in 1..Len(out) :
        (ViewBy(ADMIN_ID) /\ out[i].msg.kind = "report") =>
            \A k \in 1..Len(RegistryOrder) :
                LET sec == out[i].msg.sections[k]
                    idx == RowsOf(RegistryOrder[k])
                    shown == {j \in idx : Cardinality({m \in idx : m > j}) < 5}
                IN  /\ sec.count = Cardinality(idx)
                    /\ Len(sec.lines) = Cardinality(shown)
                    /\ Cardinality(shown) = IF Cardinality(idx) < 5
                                            THEN Cardinality(idx) ELSE 5
                    /\ \A j \in shown :
                          sec.lines[Cardinality({m \in shown : m <= j})]
                              = <<entries[j].username, ":", " ">> \o entries[j].text

C10_Witness ==
    /\ ViewBy(ADMIN_ID) /\ fault = "none" /\ Len(out) = 1
    /\ out[1].msg.kind = "report"
    /\ out[1].msg.sections[1].count = 6
    /\ entries[1].username # entries[2].username
    /\ entries[5].username # entries[6].username

\* C11: the categories offered by the menu, the categories accepted when a
\* row is written and the categories the report iterates are the same, in
\* the same order: menu and report agree, and a row is only ever written
\* under a category of the menu.
C11_SameCategoriesEverywhere ==
    /\ keyboard = cats_keys
    /\ keyboard = RegistryOrder
    /\ \A u \in Users :
          pc[u] = "add_entry" => loc[u].category \in Range(keyboard)

\* C13: every row of the table has a category of the registry.
C13_StoredCategoryInRegistry ==
    \A i \in 1..Len(entries) : entries[i].category \in Registry

\* C14: unless the gateway itself refuses a message, every handler ends
\* without an exception and with a message to the user who triggered it; in
\* particular the admin's /view always yields a report.
C14_NoUnhandledFault ==
    (Dispatchable /\ cur.handler # "none"
        /\ fault \notin {"reply", "answer", "send_message"}) =>
        /\ fault = "none"
        /\ \E i \in 1..Len(out) : out[i].to = cur.user

ChoiceBy(u) == cur.handler = "choose_category" /\ cur.user = u

\* C12: a handler run for one user never changes another user's selection
\* (a selection changes only in a category choice of that very user), and a
\* row is written for the user whose text it is, under that user's own
\* selection.
C12_NoCrossContamination ==
    [][ /\ \A u \in Users :
              user_state'[u] # user_state[u] =>
                  cur'.handler = "choose_category" /\ cur'.user = u
        /\ Len(entries') > Len(entries) =>
              LET e == entries'[Len(entries')]
              IN  /\ e.user_id = cur.user
                  /\ e.category = user_state[e.user_id]
                  /\ e.username = first_name(e.user_id) ]_vars

C12_Witness ==
    /\ Len(entries) = 2
    /\ entries[1].user_id = 1 /\ entries[1].category = "fruits"
    /\ entries[2].user_id = 2 /\ entries[2].category = "drinks"
    /\ user_state[1] = "fruits" /\ user_state[2] = "drinks"
    /\ Submitted(2)

\* the notification the admin gets for a row
NotificationOf(e) ==
    [kind |-> "new_entry", label |-> capitalize(e.category), text |-> e.text,
     from |-> e.username]

\* C15: there are never more admin notifications than committed rows, and a
\* notification is sent only once its row is in the table: the i-th
\* notification is that of a row at position i or later.
C15_StoreThenNotify ==
    /\ Len(adminSends) <= Len(entries)
    /\ \A i \in 1..Len(adminSends) :
          \E j \in i..Len(entries) : adminSends[i] = NotificationOf(entries[j])
    /\ \A u \in Users :
          pc[u] \in {"reply_text", "send_message"} =>
              /\ Len(entries) = snap.entries + 1
              /\ entries[Len(entries)].user_id = u
              /\ entries[Len(entries)].category = loc[u].category
              /\ entries[Len(entries)].text = loc[u].text

C15_Witness ==
    /\ Len(entries) = 2 /\ Len(adminSends) = 1
    /\ adminSends[1] = NotificationOf(entries[2])
    /\ adminSends[1] # NotificationOf(entries[1])
    /\ Dispatchable

\* C16: the table only grows at its end: every step leaves the rows it found
\* as they were and adds at most one after them; ids are distinct and grow
\* with the position.
C16_AppendOnly ==
    [][ /\ Len(entries') \in {Len(entries), Len(entries) + 1}
        /\ \A i \in 1..Len(entries) : entries'[i] = entries[i]
        /\ \A i, j \in 1..Len(entries') :
              i < j => entries'[i].id < entries'[j].id ]_vars

C16_Witness ==
    /\ Len(entries) = 2 /\ entries[1].id < entries[2].id
    /\ entries[1].user_id # entries[2].user_id
    /\ ViewBy(ADMIN_ID)

\* C17: after a category choice of user u, u's one pending category is the
\* token just chosen, whatever u had chosen before.
C17_LastChoiceWins ==
    \A u \in Users :
        (ChoiceBy(u) /\ out # <<>>) =>
            /\ user_state[u] \in Tokens
            /\ out = <<Sent(u, [kind |-> "chose",
                                label |-> capitalize(user_state[u])])>>

C17_Witness ==
    /\ ChoiceBy(2) /\ fault = "none" /\ user_state[2] = "drinks"
    /\ Len(entries) = 1 /\ entries[1].user_id = 2
    /\ entries[1].category = "fruits"

\* C19: /start and /view, from the admin or anyone else, leave every
\* selection and the table as they are.
C19_StartAndViewChangeNothing ==
    [][ cur'.handler \in {"start", "view_entries"} =>
            /\ user_state' = user_state
            /\ entries' = entries ]_vars

C19_Witness ==
    /\ cur.handler = "start" /\ cur.user = 2
    /\ user_state[2] # None /\ entries # <<>>

\* C18: a restart leaves every user without a selection and the table as it
\* was; the first text after the restart, whoever sends it and whatever was
\* selected before, is not stored and is answered with the
\* choose-a-category-first prompt.
C18_RestartForgetsSelections ==
    [][ /\ cur'.handler = "none" =>
              /\ entries' = entries
              /\ \A u \in Users : user_state'[u] = None
        /\ (cur.handler = "none" /\ cur'.handler = "handle_message") =>
              /\ entries' = entries
              /\ adminSends' = adminSends
              /\ \A u \in Users : pc'[u] = "idle"
              /\ out' = <<Sent(cur'.user, ChooseFirstMsg)>> ]_vars

C18_Witness ==
    /\ TextFrom(2) /\ loc[2].category = None /\ user_state[2] = None
    /\ fault = "none" /\ out = <<Sent(2, ChooseFirstMsg)>>
    /\ Len(entries) = 1 /\ entries[1].user_id = 2

\* C20: when user u chooses another category while a text of u is being
\* handled, the row, the confirmation to u and the notification to the admin
\* of that text all carry the category read when the handling began.
C20_CategoryReadOnce ==
    \A u \in Users :
        Submitting(u) =>
            /\ Len(entries) > snap.entries =>
                  entries[snap.entries + 1].category = loc[u].category
            /\ \A i \in 1..Len(out) :
                  out[i].msg.kind \in {"added", "new_entry"} =>
                      out[i].msg.label = capitalize(loc[u].category)
            /\ Len(adminSends) > snap.sends =>
                  adminSends[snap.sends + 1].label = capitalize(loc[u].category)

C20_Witness ==
    /\ Submitting(2) /\ pc[2] = "idle" /\ fault = "none"
    /\ loc[2].category = "fruits" /\ user_state[2] = "drinks"
    /\ Len(out) = 3 /\ out[1] = Sent(2, ChoseMsg("drinks"))
    /\ out[2] = Sent(2, AddedMsg("fruits"))
    /\ entries[snap.entries + 1].category = "fruits"
    /\ adminSends[snap.sends + 1].label = "Fruits"
====
